---- MODULE Spec2Model ----
(***************************************************************************)
(* State machine of src/src/App.jsx: the voice catalog loader, the         *)
(* language / voice / engine selection, the synthesis request controller   *)
(* and the history ledger of the text-to-speech page.                      *)
(*                                                                         *)
(* Scheduling model (React 18 or later, createRoot, in a browser).  The     *)
(* variables of the component hold the committed render: the values the    *)
(* page shows and every handler's closure reads.  A set-state call only    *)
(* queues an update (pending); a render applies queued updates and         *)
(* commits.  Every queued update but setHistory's is a plain value, so of  *)
(* the updates queued for one state only the last matters, and pending     *)
(* keeps that one; setHistory's updater functions are kept in order.       *)
(*   - A continuation of load() or synth() after its awaits queues its     *)
(*     updates and returns to the event loop; a later task renders them    *)
(*     (render).                                                           *)
(*   - The "default voice/engine" effect of lines 68-73 runs after a       *)
(*     render that changed one of its dependencies is committed, and       *)
(*     queues its setVoice / setEngine for a later render.  After the      *)
(*     render of an event handler it runs within the commit.  After a      *)
(*     render of the later task it is due (effectDue) and runs in a task   *)
(*     of its own (effect), or, if an event handler comes first, after the *)
(*     handler has queued its updates and before they are rendered.        *)
(*   - An event handler queues its updates and they are rendered before    *)
(*     the next event.  What else that render applies depends on the       *)
(*     version of React the page is built with, which the source does not  *)
(*     fix: it applies everything queued (batching), or the handler's own  *)
(*     updates alone, the others staying queued behind them for the later  *)
(*     task (a handler's update to a state that has one queued is re-      *)
(*     applied after it).  The build makes the choice once.                *)
(* Between a commit and the render of the effect's updates the page shows, *)
(* and a submit reads, the unrepaired selection; a repair queued for one   *)
(* language can be rendered after the language was changed again.  The two awaited network  *)
(* calls are messages in flight: the environment delivers a response, and  *)
(* a later step resumes the awaiting function.                             *)
(*                                                                         *)
(* Strings of the page that the code only stores and compares are TLA+     *)
(* strings.  The text of the textarea, whose length and trimmed value the  *)
(* code computes, is a run-length encoded string: a sequence of runs       *)
(* [ch, n], "n copies of the character ch".  A field a JSON body lacks is  *)
(* a key the record lacks; a voice's missing languageCode / languageName   *)
(* is "" and its missing supportedEngines is {} (the code only tests them  *)
(* for truthiness and membership).  The page's tab state is presentation   *)
(* only and is left out.                                                   *)
(***************************************************************************)
EXTENDS Integers, Sequences, FiniteSets, TLC

MAX_CHARS == 3000

\* history keeps the first HISTORY_CAP entries: .slice(0,6)
HISTORY_CAP == 6

\* Bounds of the model: the requests issued in one run (each advances the clock).
MaxSelectNow == 1
MaxLiveNow == 1
MaxNow == 2
MaxLedgerNow == 7

VARIABLES
  voices,       \* useState([]): the catalog, a sequence of voice records
  languages,    \* useState([]): sequence of [code, name]
  lang,         \* useState(""): selected language code
  voice,        \* useState(""): selected voice id
  engine,       \* useState(""): "" (standard) or "neural"
  text,         \* useState(""): the textarea, run-length encoded
  busy,         \* useState(false)
  error,        \* useState("")
  audioUrl,     \* useState("")
  history,      \* useState([]): newest first
  catalogCall,  \* load(): the GET /voices call and the position of load()
  calls,        \* synth(): the POST /synthesize calls in flight, oldest first,
                \*   each with the values its closure captured
  now,          \* Date.now()
  pending,      \* the state updates queued and not yet rendered: for each state
                \*   with a queued setter call the value the queue leaves it with,
                \*   for history the entries of the queued updater functions
  batching,     \* the build's React renders, with a handler's updates, everything
                \*   queued (TRUE) or the handler's updates alone (FALSE)
  effectDue     \* the effect of lines 68-73 has yet to run for the committed render

vars == <<voices, languages, lang, voice, engine, text, busy, error, audioUrl,
          history, catalogCall, calls, now, pending, batching, effectDue>>

\* the state of the component: what a render commits
hooks == <<voices, languages, lang, voice, engine, text, busy, error, audioUrl, history>>

----------------------------------------------------------------------------
\* Text: run-length encoded strings.

R(c, k) == [ch |-> c, n |-> k]

RECURSIVE length(_)
\* String.prototype.length
length(t) == IF t = <<>> THEN 0 ELSE t[1].n + length(Tail(t))

\* the white space String.prototype.trim removes (of the characters used here)
isSpace(c) == c \in {" ", "\t", "\n"}

RECURSIVE trimStart(_)
trimStart(t) ==
  IF t = <<>> THEN <<>>
  ELSE IF isSpace(t[1].ch) \/ t[1].n = 0 THEN trimStart(Tail(t))
  ELSE t

RECURSIVE trimEnd(_)
trimEnd(t) ==
  IF t = <<>> THEN <<>>
  ELSE IF isSpace(t[Len(t)].ch) \/ t[Len(t)].n = 0 THEN trimEnd(SubSeq(t, 1, Len(t) - 1))
  ELSE t

\* String.prototype.trim
trim(t) == trimEnd(trimStart(t))

----------------------------------------------------------------------------
\* Language codes: the UTF-16 code units of the codes (and of the prefix "en-")
\* that occur in the catalogs below, for startsWith and slice.

codeUnits(s) ==
  CASE s = ""      -> <<>>
    [] s = "en-"   -> <<"e", "n", "-">>
    [] s = "en-US" -> <<"e", "n", "-", "U", "S">>
    [] s = "en-GB" -> <<"e", "n", "-", "G", "B">>
    [] s = "fr-FR" -> <<"f", "r", "-", "F", "R">>
    [] s = "cy-GB" -> <<"c", "y", "-", "G", "B">>

\* String.prototype.startsWith
startsWith(s, p) ==
  LET a == codeUnits(s)
      b == codeUnits(p)
  IN  Len(a) >= Len(b) /\ SubSeq(a, 1, Len(b)) = b

\* String.prototype.slice(0, k), as code units
slice0(s, k) ==
  LET a == codeUnits(s)
  IN  SubSeq(a, 1, IF Len(a) < k THEN Len(a) ELSE k)

\* The display names of the catalogs below in the order of localeCompare.
Collation == <<"British English", "cy-GB", "French", "US English", "Welsh">>

rank(s) == CHOOSE i \in 1..Len(Collation) : Collation[i] = s

\* String.prototype.localeCompare: negative, zero or positive
localeCompare(a, b) == rank(a) - rank(b)

----------------------------------------------------------------------------
\* Derived values of a render.

chars == length(text)

\* mutant of over: the bound excluded
over_inclusive == chars >= MAX_CHARS

over == chars > MAX_CHARS

\* mutant of canGo: busy is not looked at
canGo_ignoresBusy == ~over /\ trim(text) # <<>>

\* canGo is truthy iff the trimmed text is a non-empty string
canGo == ~busy /\ ~over /\ trim(text) # <<>>

filterVoices(vs, lg) ==
  IF lg = "" THEN vs ELSE SelectSeq(vs, LAMBDA v : v.languageCode = lg)

filteredVoices == filterVoices(voices, lang)

hasVoice(fv, id) == \E i \in 1..Len(fv) : fv[i].id = id

\* supportedEngines?.includes("neural")
supportsNeural(v) == "neural" \in v.supportedEngines

\* no update queued
Idle == [k \in {} |-> ""]

\* The effect "default voice/engine on language change", run after a render with
\* voices vs, lang lg and voice vc is committed: the updates it queues.
defaultVoiceEffect(vs, lg, vc) ==
  LET fv == filterVoices(vs, lg)
  IN  IF Len(fv) # 0 /\ (vc = "" \/ ~hasVoice(fv, vc))
      THEN [voice  |-> fv[1].id,
            engine |-> IF supportsNeural(fv[1]) THEN "neural" ELSE ""]
      ELSE Idle

\* index of the first voice of fv with this id, 0 when there is none: Array.prototype.find
find(fv, id) ==
  IF hasVoice(fv, id)
  THEN CHOOSE i \in 1..Len(fv) : fv[i].id = id /\ \A j \in 1..(i - 1) : fv[j].id # id
  ELSE 0

\* The options the engine select renders: "standard" (value ""), and "neural"
\* when the selected voice is among the filtered voices and supports it.
engineOptions ==
  LET i == find(filteredVoices, voice)
  IN  IF i # 0 /\ supportsNeural(filteredVoices[i]) THEN {"", "neural"} ELSE {""}

----------------------------------------------------------------------------
\* Sample sentences of insertSample.

sample_en ==
  <<R("G", 1), R("o", 2), R("d", 1), R(" ", 1), R("m", 1), R("o", 1), R("r", 1), R("n", 1),
    R("i", 1), R("n", 1), R("g", 1), R(" ", 1), R("a", 1), R("n", 1), R("d", 1), R(" ", 1),
    R("w", 1), R("e", 1), R("l", 1), R("c", 1), R("o", 1), R("m", 1), R("e", 1), R(" ", 1),
    R("t", 1), R("o", 1), R(" ", 1), R("t", 1), R("o", 1), R("d", 1), R("a", 1), R("y", 1),
    R("rsquo", 1), R("s", 1), R(" ", 1), R("s", 1), R("e", 1), R("s", 2), R("i", 1), R("o", 1),
    R("n", 1), R(".", 1)>>
sample_fr ==
  <<R("B", 1), R("o", 1), R("n", 1), R("j", 1), R("o", 1), R("u", 1), R("r", 1), R(" ", 1),
    R("e", 1), R("t", 1), R(" ", 1), R("b", 1), R("i", 1), R("e", 1), R("n", 1), R("v", 1),
    R("e", 1), R("n", 1), R("u", 1), R("e", 1), R(" ", 1), R("a-grave", 1), R(" ", 1),
    R("l", 1), R("a", 1), R(" ", 1), R("s", 1), R("e", 1), R("s", 2), R("i", 1), R("o", 1),
    R("n", 1), R(" ", 1), R("d", 1), R("rsquo", 1), R("a", 1), R("u", 1), R("j", 1), R("o", 1),
    R("u", 1), R("r", 1), R("d", 1), R("rsquo", 1), R("h", 1), R("u", 1), R("i", 1), R(".", 1)>>
sample_es ==
  <<R("B", 1), R("u", 1), R("e", 1), R("n", 1), R("o", 1), R("s", 1), R(" ", 1), R("d", 1),
    R("i-acute", 1), R("a", 1), R("s", 1), R(" ", 1), R("y", 1), R(" ", 1), R("b", 1),
    R("i", 1), R("e", 1), R("n", 1), R("v", 1), R("e", 1), R("n", 1), R("i", 1), R("d", 1),
    R("o", 1), R("s", 1), R(" ", 1), R("a", 1), R(" ", 1), R("l", 1), R("a", 1), R(" ", 1),
    R("s", 1), R("e", 1), R("s", 1), R("i", 1), R("o-acute", 1), R("n", 1), R(" ", 1),
    R("d", 1), R("e", 1), R(" ", 1), R("h", 1), R("o", 1), R("y", 1), R(".", 1)>>
sample_pt ==
  <<R("B", 1), R("o", 1), R("m", 1), R(" ", 1), R("d", 1), R("i", 1), R("a", 1), R(" ", 1),
    R("e", 1), R(" ", 1), R("b", 1), R("e", 1), R("m", 1), R("-", 1), R("v", 1), R("i", 1),
    R("n", 1), R("d", 1), R("o", 1), R("s", 1), R(" ", 1), R("a-grave", 1), R(" ", 1),
    R("s", 1), R("e", 1), R("s", 2), R("a-tilde", 1), R("o", 1), R(" ", 1), R("d", 1),
    R("e", 1), R(" ", 1), R("h", 1), R("o", 1), R("j", 1), R("e", 1), R(".", 1)>>
sample_de ==
  <<R("G", 1), R("u", 1), R("t", 1), R("e", 1), R("n", 1), R(" ", 1), R("M", 1), R("o", 1),
    R("r", 1), R("g", 1), R("e", 1), R("n", 1), R(" ", 1), R("u", 1), R("n", 1), R("d", 1),
    R(" ", 1), R("w", 1), R("i", 1), R("l", 2), R("k", 1), R("o", 1), R("m", 2), R("e", 1),
    R("n", 1), R(" ", 1), R("z", 1), R("u", 1), R("r", 1), R(" ", 1), R("h", 1), R("e", 1),
    R("u", 1), R("t", 1), R("i", 1), R("g", 1), R("e", 1), R("n", 1), R(" ", 1), R("S", 1),
    R("i", 1), R("t", 1), R("z", 1), R("u", 1), R("n", 1), R("g", 1), R(".", 1)>>

\* by[(lang||"").slice(0,2)] || by.en
sample ==
  LET p == slice0(lang, 2)
  IN  CASE p = <<"e", "n">> -> sample_en
        [] p = <<"f", "r">> -> sample_fr
        [] p = <<"e", "s">> -> sample_es
        [] p = <<"p", "t">> -> sample_pt
        [] p = <<"d", "e">> -> sample_de
        [] OTHER -> sample_en

----------------------------------------------------------------------------
\* The catalog: GET /voices.

V(i, c, nm, e) == [id |-> i, languageCode |-> c, languageName |-> nm, supportedEngines |-> e]

\* Map.prototype.set: a key already present keeps its place and takes the new value
mapSet(m, k, x) ==
  IF \E i \in 1..Len(m) : m[i].code = k
  THEN [i \in 1..Len(m) |-> IF m[i].code = k THEN [code |-> k, name |-> x] ELSE m[i]]
  ELSE Append(m, [code |-> k, name |-> x])

RECURSIVE languageMap(_, _)
\* the for loop of load(): the entries of map, in insertion order
languageMap(arr, m) ==
  IF arr = <<>> THEN m
  ELSE LET v == Head(arr)
       IN  languageMap(Tail(arr),
             IF v.languageCode = "" THEN m
             ELSE mapSet(m, v.languageCode,
                         IF v.languageName # "" THEN v.languageName ELSE v.languageCode))

\* one step of a stable sort: x goes after the elements that do not compare above it
insertByName(sorted, x) ==
  LET k == Cardinality({i \in 1..Len(sorted) : localeCompare(sorted[i].name, x.name) <= 0})
  IN  SubSeq(sorted, 1, k) \o <<x>> \o SubSeq(sorted, k + 1, Len(sorted))

RECURSIVE sortByName(_)
\* Array.prototype.sort((a,b)=>a.name.localeCompare(b.name)), which is stable
sortByName(s) ==
  IF s = <<>> THEN <<>>
  ELSE insertByName(sortByName(SubSeq(s, 1, Len(s) - 1)), s[Len(s)])

deriveLanguages(arr) == sortByName(languageMap(arr, <<>>))

\* mutant of defaultLang: the "en-" preference is missing
defaultLang_first(langs) == IF Len(langs) > 0 THEN langs[1].code ELSE ""

\* langs.find(l=>l.code.startsWith("en-")) || langs[0], then def?.code || ""
defaultLang(langs) ==
  LET en == {i \in 1..Len(langs) : startsWith(langs[i].code, "en-")}
  IN  IF en # {} THEN langs[CHOOSE i \in en : \A j \in en : i <= j].code
      ELSE IF Len(langs) > 0 THEN langs[1].code
      ELSE ""

FALLBACK_VOICES == <<V("Joanna", "en-US", "US English", {"standard", "neural"})>>

FALLBACK_LANGUAGES == <<[code |-> "en-US", name |-> "US English"]>>

API_ERROR == "API not configured in this demo page."

\* r.ok
ok(r) == r.status \in 200..299

\* mutant of loadThrows: the status is not looked at
loadThrows_ignoresStatus(r) == r.kind = "reject" \/ ~r.json

\* load() reaches its catch block: fetch rejected, !r.ok, or r.json() rejected
loadThrows(r) == r.kind = "reject" \/ ~ok(r) \/ ~r.json

\* d.voices || []
voicesOf(d) == IF "voices" \in DOMAIN d THEN d.voices ELSE <<>>

----------------------------------------------------------------------------
\* The synthesis call: POST /synthesize.

\* d.url, d.error: "" when the body lacks the field (the code tests truthiness only)
field(d, k) == IF k \in DOMAIN d THEN d[k] ELSE ""

\* mutant of payloadOf: the engine is always sent
payloadOf_alwaysEngine(t, vc, en) == [text |-> t, voice |-> vc, engine |-> en]

\* const payload = { text, voice }; if(engine) payload.engine = engine;
payloadOf(t, vc, en) ==
  IF en # "" THEN [text |-> t, voice |-> vc, engine |-> en]
  ELSE [text |-> t, voice |-> vc]

\* mutant of synthSucceeds: r.ok is not looked at
synthSucceeds_ignoresStatus(r) ==
  r.kind = "http" /\ r.json /\ field(r.d, "url") # ""

\* the try block of synth() completes: r.json() resolved, r.ok and d.url truthy
synthSucceeds(r) ==
  r.kind = "http" /\ r.json /\ ok(r) /\ field(r.d, "url") # ""

\* mutant of thrownMessage: the service's error string is not used
thrownMessage_generic(r) ==
  IF r.kind = "reject" THEN r.message
  ELSE IF ~r.json THEN r.message
  ELSE "Synthesis failed"

\* err.message of the error the try block of synth() throws otherwise
thrownMessage(r) ==
  IF r.kind = "reject" THEN r.message
  ELSE IF ~r.json THEN r.message
  ELSE IF field(r.d, "error") # "" THEN field(r.d, "error")
  ELSE "Synthesis failed"

\* err.message || "Failed to synthesize"
shownError(r) ==
  IF thrownMessage(r) # "" THEN thrownMessage(r) ELSE "Failed to synthesize"

\* Array.prototype.slice(0, k)
take(s, k) == SubSeq(s, 1, IF Len(s) < k THEN Len(s) ELSE k)

\* mutant of pushHistory: the slice is missing
pushHistory_unbounded(h, e) == <<e>> \o h

\* mutant of pushHistory: the entry is added at the end
pushHistory_append(h, e) == take(h \o <<e>>, HISTORY_CAP)

\* h => [{ url, voice, ts, lang, engine }, ...h].slice(0,6)
pushHistory(h, e) == take(<<e>> \o h, HISTORY_CAP)

\* mutant of busyAfter: setBusy(false) at the end of try instead of in finally
busyAfter_noFinally(r) == ~synthSucceeds(r)

\* finally{ setBusy(false); }: busy after synth() has settled with response r
busyAfter(r) == FALSE

remove(s, i) == SubSeq(s, 1, i - 1) \o SubSeq(s, i + 1, Len(s))

Pending == [kind |-> "pending"]

Done == [kind |-> "done"]

----------------------------------------------------------------------------
\* The update queue and the render.

\* the queue q after the setter calls u: a later call to the same setter wins
after(q, u) ==
  [k \in DOMAIN q \cup DOMAIN u |-> IF k \in DOMAIN u THEN u[k] ELSE q[k]]

\* the queue q after setHistory(h => [e, ...h].slice(0,6)): updater functions run
\* in the order they were queued
afterPush(q, e) ==
  after(q, [history |-> (IF "history" \in DOMAIN q THEN q.history ELSE <<>>) \o <<e>>])

\* the queue q that a render of the handler's updates u alone leaves: an update
\* of u to a state that has one queued stays queued behind it
rebase(q, u) == [k \in DOMAIN q |-> IF k \in DOMAIN u THEN u[k] ELSE q[k]]

\* the value a render of q gives the state k, whose committed value is cur
val(q, k, cur) == IF k \in DOMAIN q THEN q[k] ELSE cur

RECURSIVE pushAll(_, _)
\* the updater functions of the entries es applied to h, first queued first
pushAll(h, es) ==
  IF es = <<>> THEN h ELSE pushAll(pushHistory(h, Head(es)), Tail(es))

\* A render of the updates q: the state it commits.
Apply(q) ==
  /\ voices' = val(q, "voices", voices)
  /\ languages' = val(q, "languages", languages)
  /\ lang' = val(q, "lang", lang)
  /\ voice' = val(q, "voice", voice)
  /\ engine' = val(q, "engine", engine)
  /\ text' = val(q, "text", text)
  /\ busy' = val(q, "busy", busy)
  /\ error' = val(q, "error", error)
  /\ audioUrl' = val(q, "audioUrl", audioUrl)
  /\ history' = pushAll(history, val(q, "history", <<>>))

\* The render of the updates q changed a dependency of the effect of lines 68-73:
\* lang, voice, or filteredVoices (memoised on voices and lang).  Dependencies are
\* compared by identity: setVoices stores a new array, whatever its content.
depsChanged(q) == "voices" \in DOMAIN q \/ lang' # lang \/ voice' # voice

\* The effect that is due for the committed render: the updates it queues.
dueEffect == IF effectDue THEN defaultVoiceEffect(voices, lang, voice) ELSE Idle

\* The render of an event handler applies the updates q and commits; rest stays
\* queued.  The effect runs within the commit if a dependency changed, and queues
\* its updates behind rest.
Commit(q, rest) ==
  /\ Apply(q)
  /\ pending' = IF depsChanged(q)
                THEN after(rest, defaultVoiceEffect(voices', lang', voice'))
                ELSE rest
  /\ effectDue' = FALSE

\* The render that follows an event handler which queued the updates u.  An
\* effect that is due runs first and queues its updates behind u.
HandlerRender(u) ==
  IF batching
  THEN Commit(after(after(pending, u), dueEffect), Idle)
  ELSE Commit(u, after(rebase(pending, u), dueEffect))

----------------------------------------------------------------------------
\* Initial state: the first render, load() awaiting fetch.

Init ==
  /\ voices = <<>>
  /\ languages = <<>>
  /\ lang = ""
  /\ voice = ""
  /\ engine = ""
  /\ text = <<>>
  /\ busy = FALSE
  /\ error = ""
  /\ audioUrl = ""
  /\ history = <<>>
  /\ catalogCall = Pending
  /\ calls = <<>>
  /\ now = 0
  /\ pending = Idle
  /\ batching \in BOOLEAN
  /\ effectDue = FALSE

\* The environment settles GET /voices with response r.
LoadRespond(r) ==
  /\ catalogCall.kind = "pending"
  /\ catalogCall' = r
  /\ UNCHANGED <<hooks, calls, now, pending, batching, effectDue>>

\* load() resumes after its awaits: the rest of the try block, or the catch block.
\* Its updates are queued.
load ==
  /\ catalogCall.kind \in {"reject", "http"}
  /\ IF loadThrows(catalogCall)
     THEN pending' = after(pending, [error     |-> API_ERROR,
                                     voices    |-> FALLBACK_VOICES,
                                     languages |-> FALLBACK_LANGUAGES,
                                     lang      |-> "en-US",
                                     voice     |-> "Joanna"])
     ELSE LET arr   == voicesOf(catalogCall.d)
              langs == deriveLanguages(arr)
          IN  pending' = after(pending, [voices    |-> arr,
                                         languages |-> langs,
                                         lang      |-> defaultLang(langs)])
  /\ catalogCall' = Done
  /\ UNCHANGED <<hooks, calls, now, batching, effectDue>>

\* The renderer's task: React renders what is queued, after the effect that is
\* due.  The effect of the render it commits runs later.
render ==
  /\ pending # Idle
  /\ ~effectDue
  /\ Apply(pending)
  /\ pending' = Idle
  /\ effectDue' = depsChanged(pending)
  /\ UNCHANGED <<catalogCall, calls, now, batching>>

\* The effect of lines 68-73 runs for the render committed by the renderer's task.
effect ==
  /\ effectDue
  /\ pending' = after(pending, defaultVoiceEffect(voices, lang, voice))
  /\ effectDue' = FALSE
  /\ UNCHANGED <<hooks, catalogCall, calls, now, batching>>

\* <select value={lang} onChange={e=>setLang(e.target.value)}>, one option per language
changeLang(code) ==
  /\ \E i \in 1..Len(languages) : languages[i].code = code
  /\ HandlerRender([lang |-> code])
  /\ UNCHANGED <<catalogCall, calls, now, batching>>

\* <select value={voice} onChange={e=>setVoice(e.target.value)}>, one option per
\* filtered voice
changeVoice(id) ==
  /\ hasVoice(filteredVoices, id)
  /\ HandlerRender([voice |-> id])
  /\ UNCHANGED <<catalogCall, calls, now, batching>>

\* <select value={engine} onChange={e=>setEngine(e.target.value)}>
changeEngine(v) ==
  /\ v \in engineOptions
  /\ HandlerRender([engine |-> v])
  /\ UNCHANGED <<catalogCall, calls, now, batching>>

\* <textarea onChange={e=>setText(e.target.value)}>
changeText(t) ==
  /\ HandlerRender([text |-> t])
  /\ UNCHANGED <<catalogCall, calls, now, batching>>

insertSample ==
  /\ HandlerRender([text |-> sample])
  /\ UNCHANGED <<catalogCall, calls, now, batching>>

clearAll ==
  /\ HandlerRender([text |-> <<>>, audioUrl |-> "", error |-> ""])
  /\ UNCHANGED <<catalogCall, calls, now, batching>>

\* mutant of synth: the previous result URL is not cleared
synth_keepsUrl(limit) ==
  \/ /\ ~canGo
     /\ UNCHANGED vars
  \/ /\ canGo
     /\ now < limit
     /\ HandlerRender([busy |-> TRUE, error |-> ""])
     /\ calls' = Append(calls, [payload |-> payloadOf(text, voice, engine),
                                voice |-> voice, lang |-> lang, engine |-> engine,
                                resp |-> [kind |-> "pending"]])
     /\ now' = now + 1
     /\ UNCHANGED <<catalogCall, batching>>

\* synth(e) up to its first await: the form is submitted, with the text, voice,
\* lang and engine of the committed render in its closure.  The clock advances by
\* one with every request issued, and limit caps it.
synth(limit) ==
  \/ /\ ~canGo
     /\ UNCHANGED vars
  \/ /\ canGo
     /\ now < limit
     /\ HandlerRender([busy |-> TRUE, error |-> "", audioUrl |-> ""])
     /\ calls' = Append(calls, [payload |-> payloadOf(text, voice, engine),
                                voice |-> voice, lang |-> lang, engine |-> engine,
                                resp |-> Pending])
     /\ now' = now + 1
     /\ UNCHANGED <<catalogCall, batching>>

\* The environment settles the i-th POST /synthesize in flight with response r.
SynthRespond(i, r) ==
  /\ i \in 1..Len(calls)
  /\ calls[i].resp.kind = "pending"
  /\ calls' = [calls EXCEPT ![i].resp = r]
  /\ UNCHANGED <<hooks, catalogCall, now, pending, batching, effectDue>>

\* mutant of synthResume: the entry records the selection at settlement
synthResume_currentSelection(i) ==
  /\ i \in 1..Len(calls)
  /\ calls[i].resp.kind # "pending"
  /\ LET c == calls[i]
         r == c.resp
     IN  IF synthSucceeds(r)
         THEN pending' = afterPush(after(pending, [audioUrl |-> r.d.url,
                                                   busy |-> busyAfter(r)]),
                                   [url |-> r.d.url, voice |-> voice, ts |-> now,
                                    lang |-> lang, engine |-> engine])
         ELSE pending' = after(pending, [error |-> shownError(r), busy |-> busyAfter(r)])
  /\ calls' = remove(calls, i)
  /\ UNCHANGED <<hooks, catalogCall, now, batching, effectDue>>

\* synth(e) resumes after its awaits: the rest of try, or catch; then finally.
\* Its updates are queued.
synthResume(i) ==
  /\ i \in 1..Len(calls)
  /\ calls[i].resp.kind # "pending"
  /\ LET c == calls[i]
         r == c.resp
     IN  IF synthSucceeds(r)
         THEN pending' = afterPush(after(pending, [audioUrl |-> r.d.url,
                                                   busy |-> busyAfter(r)]),
                                   [url |-> r.d.url, voice |-> c.voice, ts |-> now,
                                    lang |-> c.lang, engine |-> c.engine])
         ELSE pending' = after(pending, [error |-> shownError(r), busy |-> busyAfter(r)])
  /\ calls' = remove(calls, i)
  /\ UNCHANGED <<hooks, catalogCall, now, batching, effectDue>>

----------------------------------------------------------------------------
\* Inputs.

CatalogA ==
  <<V("Celine", "fr-FR", "French", {"standard"}),
    V("Joanna", "en-US", "US English", {"standard", "neural"}),
    V("Salli", "en-US", "US English", {"standard"})>>

CatalogB ==
  <<V("Gwyneth", "cy-GB", "Welsh", {"standard"}),
    V("Lea", "fr-FR", "French", {"standard", "neural"})>>

\* a voice without languageCode, languageName and supportedEngines
CatalogC == <<V("Zeina", "", "", {})>>

CatalogD == <<V("Salli", "en-US", "US English", {"standard"})>>

\* two "en-" languages, the one that sorts second first in the list
CatalogE ==
  <<V("Joanna", "en-US", "US English", {"standard", "neural"}),
    V("Amy", "en-GB", "British English", {"standard", "neural"})>>

\* an "en-" language that sorts after another language
CatalogF ==
  <<V("Joanna", "en-US", "US English", {"standard", "neural"}),
    V("Lea", "fr-FR", "French", {"standard", "neural"})>>

Catalogs == {CatalogA, CatalogB, CatalogC, CatalogD, CatalogE, CatalogF, FALLBACK_VOICES}

\* the language codes and voice ids the selects can offer
Codes == UNION {{c[i].languageCode : i \in 1..Len(c)} : c \in Catalogs} \ {""}

VoiceIds == UNION {{c[i].id : i \in 1..Len(c)} : c \in Catalogs}

NoBody == [k \in {} |-> ""]

Http(st, body) == [d |-> body, json |-> TRUE, kind |-> "http", status |-> st]

\* a response whose body is not JSON: r.json() rejects with a SyntaxError
Malformed(st) == [json |-> FALSE, kind |-> "http",
                  message |-> "Unexpected token < in JSON at position 0",
                  status |-> st]

\* fetch rejects
Reject(msg) == [kind |-> "reject", message |-> msg]

CatalogFailures == {Reject("Failed to fetch"), Http(500, NoBody), Malformed(200)}

CatalogResponses ==
  CatalogFailures \cup
  {Http(200, [voices |-> CatalogA]), Http(200, [voices |-> CatalogB]),
   Http(200, [voices |-> CatalogC]), Http(200, [voices |-> CatalogE]),
   Http(200, [voices |-> CatalogF]),
   Http(200, [voices |-> <<>>]), Http(200, NoBody)}

URL == "https://x/a.mp3"

\* Responses of POST /synthesize: parsed bodies are JSON objects.

SynthResponses ==
  {Http(200, [url |-> URL]),
   Http(200, NoBody),
   Http(200, [error |-> "no audio"]),
   Http(500, [error |-> "quota exceeded"]),
   Http(500, NoBody),
   Http(500, [url |-> URL]),
   Malformed(200),
   Malformed(502),
   Reject("Failed to fetch"),
   Reject("")}

Hi == <<R("H", 1), R("i", 1)>>

Blank == <<R(" ", 2), R("\n", 1)>>

\* exactly MAX_CHARS characters, and one more
Full == <<R("a", MAX_CHARS)>>

TooLong == <<R("a", MAX_CHARS), R("b", 1)>>

Texts == {<<>>, Blank, Hi, Full, TooLong}

\* smaller input sets
OneText == {Hi}

OkOrFail == {Http(200, [url |-> URL]), Http(500, NoBody)}

OnlyOk == {Http(200, [url |-> URL])}

OneVoice == {Http(200, [voices |-> CatalogD])}

\* every catalog outcome but the three-voice catalog
SmallCatalogResponses == CatalogResponses \ {Http(200, [voices |-> CatalogA])}

FailOrOneVoice == {Reject("Failed to fetch"), Http(200, [voices |-> CatalogD])}

----------------------------------------------------------------------------
\* Specifications.

NextOf(catalogResponses, texts, synthResponses, limit) ==
  \/ \E r \in catalogResponses : LoadRespond(r)
  \/ load
  \/ render
  \/ effect
  \/ \E code \in Codes : changeLang(code)
  \/ \E id \in VoiceIds : changeVoice(id)
  \/ \E v \in {"", "neural"} : changeEngine(v)
  \/ \E t \in texts : changeText(t)
  \/ insertSample
  \/ clearAll
  \/ synth(limit)
  \/ \E i \in 1..Len(calls), r \in synthResponses : SynthRespond(i, r)
  \/ \E i \in 1..Len(calls) : synthResume(i)

\* Selection: every catalog outcome, few texts and synthesis outcomes.
Next ==
  NextOf(CatalogResponses, OneText, OkOrFail, MaxSelectNow)

Spec == Init /\ [][Next]_vars

\* Catalog: every catalog outcome with at most two voices, one text, successful
\* syntheses.
NextCatalog ==
  NextOf(SmallCatalogResponses, OneText, OnlyOk, MaxSelectNow)

SpecCatalog == Init /\ [][NextCatalog]_vars

\* Synthesis: the fallback catalog or a one-voice catalog, every text and synthesis
\* outcome.
NextSynth ==
  NextOf(FailOrOneVoice, Texts, SynthResponses, MaxNow)

SpecSynth == Init /\ [][NextSynth]_vars

\* Ledger: one standard voice, enough submissions to fill the history and evict.
NextLedger ==
  NextOf(OneVoice, OneText, OkOrFail, MaxLedgerNow)

SpecLedger == Init /\ [][NextLedger]_vars

\* The network settles every call, each awaiting function is eventually resumed
\* and the renderer's task runs.
NextLive ==
  NextOf(FailOrOneVoice, Texts, SynthResponses, MaxLiveNow)

SpecLive ==
  /\ Init /\ [][NextLive]_vars
  /\ WF_vars(\E i \in 1..Len(calls), r \in SynthResponses : SynthRespond(i, r))
  /\ WF_vars(\E i \in 1..Len(calls) : synthResume(i))
  /\ WF_vars(render)
  /\ WF_vars(effect)

----------------------------------------------------------------------------
\* Properties.

\* the voice record the selection names, as the engine select looks it up
selectedSupportsNeural ==
  LET i == find(voices, voice)
  IN  i # 0 /\ supportsNeural(voices[i])

\* a step that issues a POST /synthesize
Requests == Len(calls') > Len(calls)

\* the response is an HTTP success status with a body that holds a non-empty url
GoodResponse(r) ==
  /\ r.kind = "http"
  /\ r.json
  /\ r.status >= 200 /\ r.status <= 299
  /\ "url" \in DOMAIN r.d
  /\ r.d.url # ""

\* the entry of the setHistory updater queued last
lastPush(q) == q.history[Len(q.history)]

\* the entry synth() builds for the call c when it resumes
entryOf(c) ==
  [url |-> c.resp.d.url, voice |-> c.voice, ts |-> now, lang |-> c.lang, engine |-> c.engine]

\* C1: in every reachable state the engine is "neural" only if the selected voice
\* supports neural, also after a manual change to a standard-only voice.
C1_EngineValid == engine = "neural" => selectedSupportsNeural

\* C2: no synthesis request is issued when the text is blank or longer than
\* MAX_CHARS, when no voice is selected, or when a submission is in flight.
C2_SubmitGated ==
  [][Requests => (trim(text) # <<>> /\ length(text) <= MAX_CHARS /\ voice # "" /\ ~busy)]_vars

\* the selected voice is a voice of the selected language
voiceOfLang(vc, lg) ==
  \E i \in 1..Len(voices) : voices[i].id = vc /\ voices[i].languageCode = lg

\* C3: once a language change and its repair have run and nothing is left queued,
\* the selected voice, if any, is a voice of the catalog whose languageCode is the
\* selected language.
C3_VoiceOfLanguage ==
  pending = Idle /\ lang # "" => (voice = "" \/ voiceOfLang(voice, lang))

\* The selection the code settles on: with nothing queued and no effect due, the
\* selected voice, if any, is a voice of the selected language.
SettledVoiceOfLanguage ==
  pending = Idle /\ ~effectDue /\ lang # "" => (voice = "" \/ voiceOfLang(voice, lang))

\* C4: the history never holds more than 6 entries; a successful synthesis queues
\* its entry last, and a step changes the history only by rendering the queued
\* entries, which puts the one queued last first.
C4_HistoryBound ==
  [][/\ Len(history') <= 6
     /\ \A i \in 1..Len(calls) :
          synthResume(i) /\ GoodResponse(calls[i].resp) =>
            /\ "history" \in DOMAIN pending'
            /\ lastPush(pending') = entryOf(calls[i])
     /\ history' # history =>
          /\ "history" \in DOMAIN pending
          /\ history' # <<>>
          /\ history'[1] = lastPush(pending)]_vars

\* C4 witness: seven syntheses succeeded, the first one's entry was evicted
C4_Witness ==
  /\ Len(history) = 6
  /\ history[1].ts = 7
  /\ history[6].ts = 2

\* C5: a submission that is in flight is eventually settled with busy false,
\* whatever the outcome: every resumption of synth() queues setBusy(false).
C5_BusyClears ==
  /\ busy ~> ~busy
  /\ [][\A i \in 1..Len(calls) :
          synthResume(i) => "busy" \in DOMAIN pending' /\ ~pending'.busy]_vars

\* C5 witness: a submission that ended in a transport error left busy false
C5_Witness == ~busy /\ calls = <<>> /\ error = "Failed to fetch"

\* C6: once the catalog load has settled and its updates are rendered there is a
\* selectable voice and a selectable language.
C6_NeverEmpty ==
  catalogCall.kind = "done" /\ pending = Idle =>
    (Len(filteredVoices) > 0 /\ Len(languages) > 0)

\* C7: a settled submission queues the result URL and a history entry iff the
\* response is a success status with a non-empty url; otherwise it queues neither,
\* and the result URL is and stays empty.  The result URL is set only together
\* with the history entry.
C7_SuccessIffUrl ==
  [][/\ \A i \in 1..Len(calls) :
          synthResume(i) =>
            IF GoodResponse(calls[i].resp)
            THEN /\ "audioUrl" \in DOMAIN pending'
                 /\ pending'.audioUrl = calls[i].resp.d.url
                 /\ "history" \in DOMAIN pending'
                 /\ lastPush(pending').url = calls[i].resp.d.url
            ELSE /\ "history" \notin DOMAIN pending'
                 /\ audioUrl = ""
                 /\ "audioUrl" \in DOMAIN pending' => pending'.audioUrl = ""
     /\ audioUrl' # "" /\ audioUrl' # audioUrl =>
          /\ history' # history
          /\ history'[1].url = audioUrl']_vars

\* C7 witness: a failed synthesis after a successful one: the entry is kept, no
\* result is shown
C7_Witness ==
  /\ history # <<>>
  /\ error \notin {"", API_ERROR}
  /\ audioUrl = ""
  /\ ~busy
  /\ calls = <<>>

\* C8: the error queued for display is the response's error string when it has
\* one, the generic "Synthesis failed" for a failure response without one, and the
\* thrown error's message (or "Failed to synthesize" if it has none) when the call
\* or the parsing of the body throws.
C8_ErrorMessage ==
  [][\A i \in 1..Len(calls) :
       synthResume(i) /\ ~GoodResponse(calls[i].resp) =>
         LET r == calls[i].resp
             shown == pending'.error
         IN  /\ "error" \in DOMAIN pending'
             /\ IF r.kind = "http" /\ r.json
                THEN IF "error" \in DOMAIN r.d /\ r.d.error # ""
                     THEN shown = r.d.error
                     ELSE shown = "Synthesis failed"
                ELSE IF r.message # ""
                     THEN shown = r.message
                     ELSE shown = "Failed to synthesize"]_vars

\* C8 witness: HTTP 500 with {error:"quota exceeded"} was displayed
C8_Witness == error = "quota exceeded" /\ ~busy /\ calls = <<>>

\* C9: the payload holds the text and the voice, and an engine key iff the engine
\* selected at submission is non-empty; a request without engine key records
\* engine "" in its history entry.
C9_PayloadEngine ==
  [][/\ Requests =>
          LET p == calls'[Len(calls')].payload
          IN  /\ {"text", "voice"} \subseteq DOMAIN p
              /\ p.text = text
              /\ p.voice = voice
              /\ ("engine" \in DOMAIN p) <=> (engine # "")
              /\ engine # "" => p.engine = engine
     /\ \A i \in 1..Len(calls) :
          synthResume(i) /\ GoodResponse(calls[i].resp)
            /\ "engine" \notin DOMAIN calls[i].payload =>
              lastPush(pending').engine = ""]_vars

\* C9 witness: Joanna with engine "": the entry of a request without engine key
C9_Witness ==
  /\ history # <<>>
  /\ history[1].voice = "Joanna"
  /\ history[1].engine = ""
  /\ history[1].url = URL

\* C10: with a voice selected, not busy and non-blank text, a text of exactly
\* MAX_CHARS characters can be submitted and one of MAX_CHARS + 1 issues no
\* request.
C10_LengthBoundary ==
  /\ [](voice # "" /\ ~busy /\ trim(text) # <<>> /\ now < MaxNow /\ length(text) = MAX_CHARS
          => ENABLED (synth(MaxNow) /\ Requests))
  /\ [][Requests => length(text) # MAX_CHARS + 1]_vars

\* C10 witness: a request with a text of exactly MAX_CHARS characters is in flight
C10_Witness ==
  /\ Len(calls) = 1
  /\ length(calls[1].payload.text) = MAX_CHARS
  /\ calls[1].payload.voice # ""

\* canSubmit as specified: canGo and a selected voice
canSubmit == canGo /\ voice # ""

\* C11: a submit while canSubmit does not hold changes nothing and issues no
\* request.
C11_NoOpWhenGated ==
  [][~canSubmit /\ synth(MaxSelectNow) =>
       UNCHANGED <<busy, error, audioUrl, history, text, lang, voice, engine, calls>>]_vars

\* GET /voices answered with a success status and a body that parses
CatalogSuccess(r) ==
  r.kind = "http" /\ r.json /\ r.status >= 200 /\ r.status <= 299

\* C12: a successful catalog load queues the voices, their languages sorted by
\* display name, and as selected language the first of them whose code starts with
\* "en-", else the first, else the empty one.
C12_DefaultLanguage ==
  [][load /\ CatalogSuccess(catalogCall) =>
       /\ {"voices", "languages", "lang"} \subseteq DOMAIN pending'
       /\ LET L  == pending'.languages
              vs == pending'.voices
              lg == pending'.lang
              en == {i \in 1..Len(L) : startsWith(L[i].code, "en-")}
          IN  /\ {L[i].code : i \in 1..Len(L)} =
                   {vs[i].languageCode : i \in 1..Len(vs)} \ {""}
              /\ \A i, j \in 1..Len(L) :
                   i < j => L[i].code # L[j].code /\ localeCompare(L[i].name, L[j].name) <= 0
              /\ en # {} => \E i \in en : lg = L[i].code /\ \A j \in en : i <= j
              /\ en = {} /\ Len(L) > 0 => lg = L[1].code
              /\ Len(L) = 0 => lg = ""]_vars

\* C12 witness: British English sorts before US English and is the default,
\* although en-US comes first in the catalog
C12_Witness ==
  /\ catalogCall.kind = "done"
  /\ voices = CatalogE
  /\ languages[1].code = "en-GB"
  /\ lang = "en-GB"
  /\ voice = "Amy"
  /\ now = 0

\* C13: when the catalog call fails, the load queues the single language en-US,
\* language en-US, voice Joanna and an advisory error; once they are rendered a
\* non-blank text within the bound makes canSubmit true (when no submission is in
\* flight).
C13_Fallback ==
  /\ [][load /\ ~CatalogSuccess(catalogCall) =>
          /\ {"languages", "lang", "voice", "error"} \subseteq DOMAIN pending'
          /\ pending'.languages = <<[code |-> "en-US", name |-> "US English"]>>
          /\ pending'.lang = "en-US"
          /\ pending'.voice = "Joanna"
          /\ pending'.error # ""]_vars
  /\ [](catalogCall.kind = "done" /\ voices = FALLBACK_VOICES /\ ~busy
          /\ trim(text) # <<>> /\ length(text) <= MAX_CHARS
          => canSubmit)

\* C13 witness: after the fallback, "Hi" was typed and the form can be submitted
C13_Witness ==
  /\ catalogCall.kind = "done"
  /\ voices = FALLBACK_VOICES
  /\ voice = "Joanna"
  /\ error = API_ERROR
  /\ text = Hi
  /\ canSubmit

\* C14: every step that changes the selected voice leaves the engine "neural" if
\* the new voice supports neural and "" otherwise.
C14_EngineReset ==
  [][voice' # voice =>
       LET i == find(voices', voice')
       IN  engine' = IF i # 0 /\ supportsNeural(voices'[i]) THEN "neural" ELSE ""]_vars

\* C15: while a submission is in flight the result URL is empty.
C15_NoStaleResult == (busy \/ calls # <<>>) => audioUrl = ""

\* C15 witness: a submission is in flight after an earlier one produced a result
C15_Witness ==
  /\ busy
  /\ Len(calls) = 1
  /\ history # <<>>
  /\ history[1].url = URL
  /\ audioUrl = ""

\* C16: at most one POST /synthesize is in flight, and busy holds while one is; a
\* request is issued only when none is, and is the only call a submission issues.
C16_OneInFlight ==
  /\ [](Len(calls) <= 1 /\ (calls # <<>> => busy))
  /\ [][Requests => ~busy /\ calls = <<>> /\ Len(calls') = 1]_vars

\* C16 witness: the second submission of a run is in flight alone
C16_Witness ==
  /\ Len(calls) = 1
  /\ busy
  /\ now = 2
  /\ calls[1].resp.kind = "pending"

\* C17: whenever a language is selected, the voice of a request that is sent is a
\* voice of that language: no submission reads a selection between a language
\* change and its repair.
C17_RequestVoiceOfLanguage ==
  [][Requests /\ lang # "" => voiceOfLang(calls'[Len(calls')].payload.voice, lang)]_vars

\* C18: the entry of a successful synthesis records the voice, language and
\* engine of the selection at submission, which are those of the request sent.
C18_EntryOfRequest ==
  [][/\ Requests =>
          LET c == calls'[Len(calls')]
          IN  c.voice = voice /\ c.lang = lang /\ c.engine = engine
              /\ c.payload.voice = voice
     /\ \A i \in 1..Len(calls) :
          synthResume(i) /\ GoodResponse(calls[i].resp) =>
            LET p == calls[i].payload
                e == lastPush(pending')
            IN  /\ e.voice = p.voice
                /\ e.engine = (IF "engine" \in DOMAIN p THEN p.engine ELSE "")
                /\ e.lang = calls[i].lang]_vars

\* C18 witness: a successful response is about to be handled after the user
\* changed language, voice and engine while the request was in flight
C18_Witness ==
  /\ Len(calls) = 1
  /\ GoodResponse(calls[1].resp)
  /\ calls[1].voice # ""
  /\ calls[1].lang # lang
  /\ calls[1].voice # voice
  /\ calls[1].engine # engine

\* C19: a successful synthesis queues one entry, and the render of a queued entry
\* changes the history h to the first 6 elements of <<entry>> \o h: the entries
\* of h keep their content and order and only the last one is dropped, and only
\* when h was full; nothing else queues an entry or changes the history.
C19_PushOnly ==
  [][/\ \A i \in 1..Len(calls) :
          synthResume(i) /\ GoodResponse(calls[i].resp) =>
            /\ "history" \in DOMAIN pending'
            /\ pending'.history = <<entryOf(calls[i])>>
     /\ (~\E i \in 1..Len(calls) : synthResume(i) /\ GoodResponse(calls[i].resp)) =>
          ("history" \in DOMAIN pending' =>
             "history" \in DOMAIN pending /\ pending'.history = pending.history)
     /\ history' # history =>
          /\ "history" \in DOMAIN pending
          /\ Len(pending.history) = 1
          /\ Len(history') = (IF Len(history) < 6 THEN Len(history) + 1 ELSE 6)
          /\ history'[1] = pending.history[1]
          /\ \A k \in 2..Len(history') : history'[k] = history[k - 1]]_vars

\* C19 witness: the history is full, its oldest entry was evicted, and Clear ran
\* afterwards without touching it
C19_Witness ==
  /\ Len(history) = 6
  /\ history[6].ts = 2
  /\ ~busy
  /\ audioUrl = ""
  /\ text = <<>>

\* C20: the error message and the result URL are never both non-empty.
C20_ErrorOrResult == ~(error # "" /\ audioUrl # "")

====
